---- MODULE Spec2Model ----
(***************************************************************************)
(* Model of the quadtree index (src/src/quadtree.rs), of the physics       *)
(* systems (src/src/physics.rs) and of the flocking system                 *)
(* (src/src/boids.rs) of bevy_platformer.                                  *)
(*                                                                         *)
(* Numbers.  The program computes in f32.  The model computes in integers: *)
(* every sum and difference is exact, and so is every halving of a cell,   *)
(* because the root's halfsize is a power of two with more factors of two  *)
(* than the call stack has frames.  A chain of calls deeper than           *)
(* StackDepth is a stack overflow.  Inputs lie on a grid of half the       *)
(* root's halfsize, so entries that differ are told apart within three     *)
(* levels and only entries no subdivision can tell apart get that deep.    *)
(***************************************************************************)
EXTENDS Integers, Sequences, FiniteSets, TLC

VARIABLES
    mode,       \* which part of the program this behaviour exercises
    tree,       \* the AabbQuadtree / PointQuadtree under construction
    calls,      \* the insert calls that returned: <<entry, returned value>>
    crashed,    \* TRUE once an insert call has overflowed the stack
    found,      \* the Vec<Entity> the last query call filled
    asked,      \* the (range, position) of the last query call, or <<>>
    bodies,     \* the entities with an AABB and a MovingObject, in query order
    last,       \* the system that ran last
    steps,      \* how many systems have run
    pending,    \* the systems of the Update schedule still to run this frame
    resources,  \* BoidParameters, the primary window and the player's position
    steered,    \* per boid, final_velocity of the last move_boids before the jitter
    jitters,    \* per boid, the jitter the last move_boids drew
    player      \* the components of the Player entity that movement_controls queries

vars == <<mode, tree, calls, crashed, found, asked, bodies, last, steps, pending,
          resources, steered, jitters, player>>

----------------------------------------------------------------------------
(* Bounds of the model *)

\* number of insert calls in one behaviour
MaxInserts == 4
\* call depth at which the stack overflows
StackDepth == 8
\* number of systems run in one behaviour
MaxSteps == 5
\* number of systems run on the flock in one behaviour
MaxFlockSteps == 2

(* Program constants *)

AabbCapacity == 2
PointCapacity == 3

\* the root boundary's halfsize (MapAabb.size), and the grid of the inputs
WorldHalf == 2 ^ (StackDepth + 1)
Grid == WorldHalf \div 2

----------------------------------------------------------------------------
(* Geometry: src/src/physics.rs *)

X(v) == v[1]
Y(v) == v[2]

\* fn collides: the exact AABB overlap test, four strict comparisons
Collides(a_hs, a_pos, b_hs, b_pos) ==
    /\ (X(a_pos) - X(a_hs)) < (X(b_pos) + X(b_hs))
    /\ (X(a_pos) + X(a_hs)) > (X(b_pos) - X(b_hs))
    /\ (Y(a_pos) + Y(a_hs)) > (Y(b_pos) - Y(b_hs))
    /\ (Y(a_pos) - Y(a_hs)) < (Y(b_pos) + Y(b_hs))

\* fn intersects: the point-in-box test of the point tree (closed box)
Intersects(hs, center, point) ==
    /\ X(center) - X(hs) <= X(point)
    /\ X(point) <= X(center) + X(hs)
    /\ Y(center) - Y(hs) <= Y(point)
    /\ Y(point) <= Y(center) + Y(hs)

\* f32 division by 2.0
Half(x) == x \div 2

----------------------------------------------------------------------------
(* Nodes: struct AabbQuadtree / struct PointQuadtree.  The four Option<Box> *)
(* children nw, ne, sw, se are the sequence `children`, empty when all are  *)
(* None.  An entry is [id, hs, pos]; a point entry has hs = <<0, 0>>, which *)
(* the point tree never reads.                                              *)

New(boundary, center, capacity) ==
    [boundary |-> boundary, center |-> center, capacity |-> capacity,
     objects |-> <<>>, divided |-> FALSE, children |-> <<>>]

\* the four children subdivide creates, in the order nw, ne, sw, se
Quadrants(node) ==
    LET half_boundary == <<Half(X(node.boundary)), Half(Y(node.boundary))>>
        center == node.center
        hx == X(half_boundary)
        hy == Y(half_boundary)
    IN  << New(half_boundary, <<X(center) - hx, Y(center) + hy>>, node.capacity),
           New(half_boundary, <<X(center) + hx, Y(center) + hy>>, node.capacity),
           New(half_boundary, <<X(center) - hx, Y(center) - hy>>, node.capacity),
           New(half_boundary, <<X(center) + hx, Y(center) - hy>>, node.capacity) >>

\* what a call gives back: the node as the call left it, the returned bool,
\* and whether the call overflowed the stack instead of returning
Ret(node, ok) == [node |-> node, ok |-> ok, overflow |-> FALSE]
Overflow(node) == [node |-> node, ok |-> FALSE, overflow |-> TRUE]

----------------------------------------------------------------------------
(* AabbQuadtree: src/src/quadtree.rs:20-121 *)

RECURSIVE AabbInsert(_, _, _)
RECURSIVE AabbInsertQuadrants(_, _, _, _, _)
RECURSIVE AabbRedistribute(_, _, _, _)

AabbRejectsNothing(node, e) == FALSE

\* the early return of insert: the entry does not overlap the node's boundary
AabbRejects(node, e) ==
    ~Collides(node.boundary, node.center, e.hs, e.pos)

\* an insert that never finds a leaf full
AabbHasRoomAlways(node) == ~node.divided

\* the leaf still has capacity
AabbHasRoom(node) ==
    ~node.divided /\ Len(node.objects) < node.capacity

\* the loop over [nw, ne, sw, se] of insert: inserted |= quadrant.insert(..)
AabbInsertQuadrants(node, e, k, inserted, fuel) ==
    IF k > Len(node.children) THEN Ret(node, inserted)
    ELSE LET r == AabbInsert(node.children[k], e, fuel - 1)
         IN  IF r.overflow THEN Overflow(node)
             ELSE AabbInsertQuadrants([node EXCEPT !.children[k] = r.node],
                                      e, k + 1, inserted \/ r.ok, fuel)

\* the loop of subdivide: self.insert(..) for every object taken from the
\* node, the returned bool dropped
AabbRedistribute(node, objects, i, fuel) ==
    IF i > Len(objects) THEN Ret(node, TRUE)
    ELSE LET r == AabbInsert(node, objects[i], fuel - 1)
         IN  IF r.overflow THEN Overflow(node)
             ELSE AabbRedistribute(r.node, objects, i + 1, fuel)

AabbSubdivide(node, fuel) ==
    IF fuel = 0 THEN Overflow(node)
    ELSE AabbRedistribute([node EXCEPT !.children = Quadrants(node),
                                       !.divided = TRUE,
                                       !.objects = <<>>],
                          node.objects, 1, fuel)

AabbInsert(node, e, fuel) ==
    IF fuel = 0 THEN Overflow(node)
    ELSE IF AabbRejects(node, e) THEN Ret(node, FALSE)
    ELSE IF AabbHasRoom(node)
         THEN Ret([node EXCEPT !.objects = Append(@, e)], TRUE)
    ELSE LET sub == IF node.divided THEN Ret(node, TRUE)
                    ELSE AabbSubdivide(node, fuel - 1)
         IN  IF sub.overflow THEN Overflow(node)
             ELSE AabbInsertQuadrants(sub.node, e, 1, FALSE, fuel)

----------------------------------------------------------------------------
(* PointQuadtree: src/src/quadtree.rs:136-237 *)

RECURSIVE PointInsert(_, _, _)
RECURSIVE PointInsertQuadrants(_, _, _, _)
RECURSIVE PointRedistribute(_, _, _, _)

PointRejects(node, e) ==
    ~Intersects(node.boundary, node.center, e.pos)

PointKeepsGoing(ok) == FALSE

\* the early `return true` of the loop over the quadrants
PointStopsAt(ok) == ok

\* the loop over [nw, ne, sw, se] of insert: the first child that accepts
\* the point ends the call
PointInsertQuadrants(node, e, k, fuel) ==
    IF k > Len(node.children) THEN Ret(node, FALSE)
    ELSE LET r == PointInsert(node.children[k], e, fuel - 1)
             next == [node EXCEPT !.children[k] = r.node]
         IN  IF r.overflow THEN Overflow(node)
             ELSE IF PointStopsAt(r.ok) THEN Ret(next, TRUE)
             ELSE LET rest == PointInsertQuadrants(next, e, k + 1, fuel)
                  IN  IF rest.overflow THEN rest ELSE Ret(rest.node, r.ok \/ rest.ok)

PointRedistribute(node, objects, i, fuel) ==
    IF i > Len(objects) THEN Ret(node, TRUE)
    ELSE LET r == PointInsert(node, objects[i], fuel - 1)
         IN  IF r.overflow THEN Overflow(node)
             ELSE PointRedistribute(r.node, objects, i + 1, fuel)

PointSubdivide(node, fuel) ==
    IF fuel = 0 THEN Overflow(node)
    ELSE PointRedistribute([node EXCEPT !.children = Quadrants(node),
                                        !.divided = TRUE,
                                        !.objects = <<>>],
                           node.objects, 1, fuel)

PointInsert(node, e, fuel) ==
    IF fuel = 0 THEN Overflow(node)
    ELSE IF PointRejects(node, e) THEN Ret(node, FALSE)
    ELSE IF ~node.divided /\ Len(node.objects) < node.capacity
         THEN Ret([node EXCEPT !.objects = Append(@, e)], TRUE)
    ELSE LET sub == IF node.divided THEN Ret(node, TRUE)
                    ELSE PointSubdivide(node, fuel - 1)
         IN  IF sub.overflow THEN Overflow(node)
             ELSE PointInsertQuadrants(sub.node, e, 1, fuel)

----------------------------------------------------------------------------
(* Quadtree, the earlier box tree kept in src/src/physics.rs:124-268 *)

RECURSIVE LegacyInsert(_, _, _)
RECURSIVE LegacyInsertQuadrants(_, _, _, _, _)
RECURSIVE LegacyRedistribute(_, _, _, _)

\* the boundary each `if collides(..)` before a child's insert reads: the
\* north-east test reads self.se's boundary with self.ne's centre
LegacyTestedBoundary(node, k) ==
    IF k = 2 THEN node.children[4].boundary ELSE node.children[k].boundary

LegacyInsertQuadrants(node, e, k, inserted, fuel) ==
    IF k > Len(node.children) THEN Ret(node, inserted)
    ELSE IF ~Collides(LegacyTestedBoundary(node, k), node.children[k].center,
                      e.hs, e.pos)
         THEN LegacyInsertQuadrants(node, e, k + 1, inserted, fuel)
    ELSE LET r == LegacyInsert(node.children[k], e, fuel - 1)
         IN  IF r.overflow THEN Overflow(node)
             ELSE LegacyInsertQuadrants([node EXCEPT !.children[k] = r.node],
                                        e, k + 1, inserted \/ r.ok, fuel)

LegacyRedistribute(node, objects, i, fuel) ==
    IF i > Len(objects) THEN Ret(node, TRUE)
    ELSE LET r == LegacyInsert(node, objects[i], fuel - 1)
         IN  IF r.overflow THEN Overflow(node)
             ELSE LegacyRedistribute(r.node, objects, i + 1, fuel)

\* subdivide iterates over self.objects.clone(): the node keeps its objects
LegacySubdivide(node, fuel) ==
    IF fuel = 0 THEN Overflow(node)
    ELSE LegacyRedistribute([node EXCEPT !.children = Quadrants(node),
                                         !.divided = TRUE],
                            node.objects, 1, fuel)

LegacyInsert(node, e, fuel) ==
    IF fuel = 0 THEN Overflow(node)
    ELSE IF ~Collides(node.boundary, node.center, e.hs, e.pos) THEN Ret(node, FALSE)
    ELSE IF ~node.divided /\ Len(node.objects) < node.capacity
         THEN Ret([node EXCEPT !.objects = Append(@, e)], TRUE)
    ELSE LET sub == IF node.divided THEN Ret(node, TRUE)
                    ELSE LegacySubdivide(node, fuel - 1)
         IN  IF sub.overflow THEN Overflow(node)
             ELSE LegacyInsertQuadrants(sub.node, e, 1, FALSE, fuel)

----------------------------------------------------------------------------
(* query, the same text in both trees: quadtree.rs:102-120 and 218-236 *)

RECURSIVE Query(_, _, _)
RECURSIVE QueryChildren(_, _, _, _)
RECURSIVE Ids(_)

Ids(objects) ==
    IF objects = <<>> THEN <<>>
    ELSE <<Head(objects).id>> \o Ids(Tail(objects))

QuerySkipsLast(node) == Len(node.children) - 1

\* the children a divided node's query descends into: nw, ne, sw, se
QueryFanout(node) == Len(node.children)

QueryChildren(node, range, position, k) ==
    IF k > QueryFanout(node) THEN <<>>
    ELSE Query(node.children[k], range, position)
            \o QueryChildren(node, range, position, k + 1)

\* the ids query pushes to `found`, in order
Query(node, range, position) ==
    IF ~Collides(node.boundary, node.center, range, position) THEN <<>>
    ELSE IF node.divided THEN QueryChildren(node, range, position, 1)
    ELSE Ids(node.objects)

----------------------------------------------------------------------------
(* Building and querying a tree: build_aabb_quadtree, build_point_quadtree  *)
(* (quadtree.rs:239-258) insert the items one by one into a fresh tree      *)
(* centred at Vec2::ZERO; the callers query the tree once it is built.      *)

World == <<WorldHalf, WorldHalf>>
Origin == <<0, 0>>

Big == <<Grid, Grid>>
Flat == <<0, 0>>

\* the (halfsize, position) of the boxes offered to the box tree
BoxInputs ==
    { <<Big, <<0, 0>>>>,            \* straddles the root's centre lines
      <<Flat, <<0, 0>>>>,           \* zero extent, on the root's centre
      <<Big, <<Grid, Grid>>>>,      \* fills the north-east quadrant
      <<Flat, <<Grid, Grid>>>>,     \* zero extent, inside the north-east quadrant
      <<Big, <<-Grid, -Grid>>>>,    \* fills the south-west quadrant
      <<Big, <<3 * Grid, 0>>>> }    \* outside the root

\* the positions offered to the point tree
PointInputs ==
    { <<0, 0>>, <<Grid, Grid>>, <<-Grid, -Grid>>, <<0, Grid>>,
      <<WorldHalf, WorldHalf>>, <<3 * Grid, 0>> }

\* the ranges asked of a built tree
QueryInputs ==
    BoxInputs \cup { <<Big, <<Grid, -Grid>>>>, <<World, <<0, 0>>>> }

Entry(id, in) == [id |-> id, hs |-> in[1], pos |-> in[2]]

InitTree ==
    /\ mode \in {"aabb", "point", "legacy"}
    /\ tree = New(World, Origin, IF mode = "point" THEN PointCapacity ELSE AabbCapacity)
    /\ calls = <<>>
    /\ crashed = FALSE
    /\ found = <<>>
    /\ asked = <<>>
    /\ bodies = <<>>
    /\ last = "none"
    /\ steps = 0
    /\ pending = {}
    /\ resources = <<>>
    /\ steered = <<>>
    /\ jitters = <<>>
    /\ player = <<>>

\* one call of the root's insert, through to its return or to the overflow
InsertCall(r, e) ==
    /\ IF r.overflow
       THEN crashed' = TRUE /\ UNCHANGED <<tree, calls>>
       ELSE /\ tree' = r.node
            /\ calls' = Append(calls, <<e, r.ok>>)
            /\ UNCHANGED crashed
    /\ UNCHANGED <<mode, found, asked, bodies, last, steps, pending, resources, steered,
                   jitters, player>>

AabbInsertCall ==
    /\ mode = "aabb" /\ ~crashed /\ asked = <<>>
    /\ Len(calls) < MaxInserts
    /\ \E in \in BoxInputs :
          LET e == Entry(Len(calls) + 1, in)
          IN  InsertCall(AabbInsert(tree, e, StackDepth), e)

PointInsertCall ==
    /\ mode = "point" /\ ~crashed /\ asked = <<>>
    /\ Len(calls) < MaxInserts
    /\ \E p \in PointInputs :
          LET e == Entry(Len(calls) + 1, <<Flat, p>>)
          IN  InsertCall(PointInsert(tree, e, StackDepth), e)

LegacyInsertCall ==
    /\ mode = "legacy" /\ ~crashed
    /\ Len(calls) < MaxInserts
    /\ \E in \in BoxInputs :
          LET e == Entry(Len(calls) + 1, in)
          IN  InsertCall(LegacyInsert(tree, e, StackDepth), e)

\* one call of the root's query with a fresh `found`
QueryCall ==
    /\ mode \in {"aabb", "point"} /\ ~crashed
    /\ \E q \in QueryInputs :
          /\ asked' = q
          /\ found' = Query(tree, q[1], q[2])
    /\ UNCHANGED <<mode, tree, calls, crashed, bodies, last, steps, pending, resources, steered,
                   jitters, player>>

NextTree == AabbInsertCall \/ PointInsertCall \/ LegacyInsertCall \/ QueryCall

Spec == InitTree /\ [][NextTree]_vars

----------------------------------------------------------------------------
(* Reading a tree *)

RECURSIVE Leaves(_)
RECURSIVE Nodes(_)
RECURSIVE Flatten(_)

\* the leaves of a tree, in the order nw, ne, sw, se
Leaves(node) ==
    IF node.children = <<>> THEN <<node>>
    ELSE Leaves(node.children[1]) \o Leaves(node.children[2])
            \o Leaves(node.children[3]) \o Leaves(node.children[4])

\* every node of a tree
Nodes(node) ==
    IF node.children = <<>> THEN {node}
    ELSE {node} \cup Nodes(node.children[1]) \cup Nodes(node.children[2])
                \cup Nodes(node.children[3]) \cup Nodes(node.children[4])

Flatten(seqs) ==
    IF seqs = <<>> THEN <<>> ELSE Head(seqs) \o Flatten(Tail(seqs))

Range(seq) == { seq[i] : i \in DOMAIN seq }

\* the ids stored in the leaves of a tree, one occurrence per leaf holding it
LeafIds(node) ==
    Flatten([i \in DOMAIN Leaves(node) |-> Ids(Leaves(node)[i].objects)])

StoredIds(node) == Range(LeafIds(node))

Occurrences(seq, x) == Cardinality({ i \in DOMAIN seq : seq[i] = x })

\* the entries whose insert call returned true
Accepted == { calls[i][1] : i \in { j \in DOMAIN calls : calls[j][2] } }

\* the ids a query over the leaves would give without pruning at inner nodes
LeafwiseQuery(node, range, position) ==
    Flatten([i \in DOMAIN Leaves(node) |->
                IF Collides(Leaves(node)[i].boundary, Leaves(node)[i].center,
                            range, position)
                THEN Ids(Leaves(node)[i].objects)
                ELSE <<>>])

----------------------------------------------------------------------------
(* Claims about the quadtree *)

\* C1 (as claimed): in the box tree, whenever two accepted entries A and B
\* overlap by the exact test, query(A.shape, A.position) reports B's id.
C1_Superset ==
    (mode = "aabb" /\ ~crashed) =>
        \A a \in Accepted : \A b \in Accepted :
            (a.id # b.id /\ Collides(a.hs, a.pos, b.hs, b.pos))
                => b.id \in Range(Query(tree, a.hs, a.pos))

\* C2 (as claimed): the number of ids reachable by walking every leaf equals
\* the number of insert calls that returned true.
C2_Conservation ==
    (mode \in {"aabb", "point"}) =>
        Cardinality(StoredIds(tree)) = Cardinality(Accepted)

\* C3 (as claimed): every insert call returns; no input drives subdivision
\* into unbounded recursion.
C3_InsertTerminates == ~crashed

\* C4 (as claimed): every node is a leaf (not divided, no children) or an
\* inner node (divided, no entries of its own, exactly four children).
C4_NodeShape ==
    \A n \in Nodes(tree) :
        \/ ~n.divided /\ n.children = <<>>
        \/ n.divided /\ n.objects = <<>> /\ Len(n.children) = 4

\* a point on one of the root's centre lines
OnCentreLine(p) == X(p) = 0 \/ Y(p) = 0

InsertOf(node, e) ==
    IF mode = "point" THEN PointInsert(node, e, StackDepth)
    ELSE AabbInsert(node, e, StackDepth)

\* whether the entry overlaps the node's boundary, by the tree's own test
Overlaps(node, e) ==
    IF mode = "point" THEN Intersects(node.boundary, node.center, e.pos)
    ELSE Collides(node.boundary, node.center, e.hs, e.pos)

InsertInputs ==
    IF mode = "point" THEN { <<Flat, p>> : p \in PointInputs } ELSE BoxInputs

\* C6: a returning insert call on any node returns true exactly when the
\* entry is then stored in a leaf of that node's subtree, and an entry that
\* does not overlap the node's boundary gets false and leaves the subtree as
\* it was.  The last call of the build is checked on its own record too.
C6_InsertReturn ==
    (mode \in {"aabb", "point"} /\ asked = <<>>) =>
        /\ \A n \in Nodes(tree) : \A in \in InsertInputs :
              LET e == Entry(0, in)
                  r == InsertOf(n, e)
              IN  ~r.overflow =>
                     /\ r.ok <=> (0 \in StoredIds(r.node))
                     /\ ~Overlaps(n, e) => (~r.ok /\ r.node = n)
        /\ calls # <<>> =>
              LET lastCall == calls[Len(calls)]
              IN  /\ lastCall[2] <=> (lastCall[1].id \in StoredIds(tree))
                  /\ ~Overlaps(New(World, Origin, 1), lastCall[1]) => ~lastCall[2]

\* C6, the case: in a divided box tree one call was turned away with false
\* and the last call returned true with its entry stored.
C6_Witness ==
    /\ mode = "aabb" /\ tree.divided /\ asked = <<>>
    /\ \E i \in DOMAIN calls : ~calls[i][2] /\ calls[i][1].id \notin StoredIds(tree)
    /\ calls[Len(calls)][2] /\ calls[Len(calls)][1].id \in StoredIds(tree)

\* C7: a query call appends exactly the ids held by the leaves whose
\* boundary overlaps the range, leaf by leaf in the order nw, ne, sw, se,
\* with no test of the single entries, and nothing from any other leaf.
C7_QueryLeafGranular ==
    asked # <<>> => found = LeafwiseQuery(tree, asked[1], asked[2])

\* C7, the case: a query of a divided tree reported an entry that does not
\* itself overlap the range, and passed over a leaf that holds entries.
C7_Witness ==
    /\ asked # <<>> /\ tree.divided
    /\ \E e \in Accepted :
          /\ e.id \in Range(found)
          /\ ~Collides(asked[1], asked[2], e.hs, e.pos)
    /\ \E i \in DOMAIN Leaves(tree) :
          /\ Leaves(tree)[i].objects # <<>>
          /\ ~Collides(Leaves(tree)[i].boundary, Leaves(tree)[i].center,
                       asked[1], asked[2])

----------------------------------------------------------------------------
(* The physics systems: src/src/physics.rs:270-391                          *)
(*                                                                          *)
(* Lengths are integers in units of 1/Unit of a world unit.  The masses are *)
(* 0, 10 and 30, so every ratio mass / total_mass is 0, 1/4, 1/2, 3/4 or 1,  *)
(* exact in f32 and, at this resolution, in the integers.                   *)

\* the resolution: 4 to the number of pair resolutions a behaviour can hold,
\* three a pass and one pass a frame of four systems
Unit == 4 ^ (3 * ((MaxSteps + 3) \div 4))

Abs(x) == IF x < 0 THEN -x ELSE x

\* MovingObjectState::default()
NoContact == [right |-> FALSE, left |-> FALSE, ground |-> FALSE, ceiling |-> FALSE]

\* Option<Vec2>::None
None == <<>>

PenetrationDepthFromCentre(a_aabb, a_pos, b_aabb, b_pos) ==
    IF Collides(a_aabb, a_pos, b_aabb, b_pos)
    THEN << IF X(a_pos) > X(b_pos)
            THEN (X(b_pos) + X(b_aabb)) - X(a_pos)
            ELSE (X(b_pos) - X(b_aabb)) - X(a_pos),
            IF Y(a_pos) > Y(b_pos)
            THEN (Y(b_pos) + Y(b_aabb)) - Y(a_pos)
            ELSE (Y(b_pos) - Y(b_aabb)) - Y(a_pos) >>
    ELSE None

\* a penetration_depth that takes the first branch on equal centres as well
PenetrationDepthOnEqualCentres(a_aabb, a_pos, b_aabb, b_pos) ==
    IF Collides(a_aabb, a_pos, b_aabb, b_pos)
    THEN << IF X(a_pos) >= X(b_pos)
            THEN (X(b_pos) + X(b_aabb)) - (X(a_pos) - X(a_aabb))
            ELSE (X(b_pos) - X(b_aabb)) - (X(a_pos) + X(a_aabb)),
            IF Y(a_pos) >= Y(b_pos)
            THEN (Y(b_pos) + Y(b_aabb)) - (Y(a_pos) - Y(a_aabb))
            ELSE (Y(b_pos) - Y(b_aabb)) - (Y(a_pos) + Y(a_aabb)) >>
    ELSE None

\* fn penetration_depth
PenetrationDepth(a_aabb, a_pos, b_aabb, b_pos) ==
    IF Collides(a_aabb, a_pos, b_aabb, b_pos)
    THEN << IF X(a_pos) > X(b_pos)
            THEN (X(b_pos) + X(b_aabb)) - (X(a_pos) - X(a_aabb))
            ELSE (X(b_pos) - X(b_aabb)) - (X(a_pos) + X(a_aabb)),
            IF Y(a_pos) > Y(b_pos)
            THEN (Y(b_pos) + Y(b_aabb)) - (Y(a_pos) - Y(a_aabb))
            ELSE (Y(b_pos) - Y(b_aabb)) - (Y(a_pos) + Y(a_aabb)) >>
    ELSE None

RECURSIVE Gcd(_, _)
Gcd(m, n) == IF n = 0 THEN m ELSE Gcd(n, m % n)

\* the quotient num / den as a fraction in lowest terms
Fraction(num, den) ==
    [num |-> num \div Gcd(num, den), den |-> den \div Gcd(num, den)]

RatioOfOther(mass, other_mass) == Fraction(other_mass, mass + other_mass)

\* a_ratio = a.mass / total_mass, b_ratio = b.mass / total_mass
Ratio(mass, other_mass) == Fraction(mass, mass + other_mass)

\* penetration_depth.axis * ratio
Times(depth, ratio) == (depth \div ratio.den) * ratio.num

\* a resolver that takes X on a tie as well
AdjustsXOnTie(depth) == Abs(X(depth)) <= Abs(Y(depth))

\* determine which axis to adjust
AdjustsX(depth) == Abs(X(depth)) < Abs(Y(depth))

PushedBack(depth_on_axis) == depth_on_axis < 0

\* penetration_depth.x >= 0.0, penetration_depth.y >= 0.0: A is pushed
\* towards the right or upwards
PushedOn(depth_on_axis) == depth_on_axis >= 0

\* the body of the loop over the combinations, for the pair (a, b) = (i, j)
ResolvePair(bs, i, j) ==
    LET a == bs[i]
        b == bs[j]
        depth == PenetrationDepth(a.aabb, a.position, b.aabb, b.position)
        a_ratio == Ratio(a.mass, b.mass)
        b_ratio == Ratio(b.mass, a.mass)
    IN  IF a.mass = 0 /\ b.mass = 0 THEN bs
        ELSE IF depth = None THEN bs
        ELSE IF AdjustsX(depth)
        THEN [bs EXCEPT
                ![i].position = <<X(@) + Times(X(depth), a_ratio), Y(@)>>,
                ![j].position = <<X(@) - Times(X(depth), b_ratio), Y(@)>>,
                ![i].state = IF PushedOn(X(depth)) THEN [@ EXCEPT !.left = TRUE]
                             ELSE [@ EXCEPT !.right = TRUE],
                ![j].state = IF PushedOn(X(depth)) THEN [@ EXCEPT !.right = TRUE]
                             ELSE [@ EXCEPT !.left = TRUE]]
        ELSE [bs EXCEPT
                ![i].position = <<X(@), Y(@) + Times(Y(depth), a_ratio)>>,
                ![j].position = <<X(@), Y(@) - Times(Y(depth), b_ratio)>>,
                ![i].state = IF PushedOn(Y(depth)) THEN [@ EXCEPT !.ground = TRUE]
                             ELSE [@ EXCEPT !.ceiling = TRUE],
                ![j].state = IF PushedOn(Y(depth)) THEN [@ EXCEPT !.ceiling = TRUE]
                             ELSE [@ EXCEPT !.ground = TRUE]]

\* query.iter_combinations_mut::<2>(): the pairs (i, j), i < j, in order
Combinations(n) ==
    IF n = 2 THEN << <<1, 2>> >>
    ELSE IF n = 3 THEN << <<1, 2>>, <<1, 3>>, <<2, 3>> >>
    ELSE <<>>

RECURSIVE ResolveAll(_, _)
ResolveAll(bs, pairs) ==
    IF pairs = <<>> THEN bs
    ELSE ResolveAll(ResolvePair(bs, Head(pairs)[1], Head(pairs)[2]), Tail(pairs))

CollisionsKeepsStates(bs) == ResolveAll(bs, Combinations(Len(bs)))

\* a resolver that also stops the bodies it has flagged
CollisionsStopsBodies(bs) ==
    LET resolved ==
            ResolveAll([i \in DOMAIN bs |-> [bs[i] EXCEPT !.state = NoContact]],
                       Combinations(Len(bs)))
    IN  [i \in DOMAIN bs |->
            IF resolved[i].state = NoContact THEN resolved[i]
            ELSE [resolved[i] EXCEPT !.velocity = <<0, 0>>]]

\* fn collisions: unset every state, then resolve the combinations in order
CollisionsPass(bs) ==
    ResolveAll([i \in DOMAIN bs |-> [bs[i] EXCEPT !.state = NoContact]],
               Combinations(Len(bs)))


UpdatePhysicsMovesFirst(bs, delta_seconds) ==
    [i \in DOMAIN bs |->
        LET moved == << X(bs[i].position) + X(bs[i].velocity) * delta_seconds,
                        Y(bs[i].position) + Y(bs[i].velocity) * delta_seconds >>
        IN  [bs[i] EXCEPT
                !.position = moved,
                !.old_position = moved,
                !.old_velocity = bs[i].velocity,
                !.old_state = bs[i].state]]

\* fn update_physics, for the frame time delta_seconds
UpdatePhysicsPass(bs, delta_seconds) ==
    [i \in DOMAIN bs |->
        [bs[i] EXCEPT
            !.old_position = bs[i].position,
            !.old_velocity = bs[i].velocity,
            !.old_state = bs[i].state,
            !.position = << X(bs[i].position) + X(bs[i].velocity) * delta_seconds,
                            Y(bs[i].position) + Y(bs[i].velocity) * delta_seconds >>]]

ApplyGravityOnGroundToo(bs) ==
    [i \in DOMAIN bs |->
        IF bs[i].gravity = None THEN bs[i]
        ELSE [bs[i] EXCEPT !.velocity = <<X(@), Y(@) - bs[i].gravity[1]>>]]

\* fn apply_gravity: the bodies with a Gravity component
ApplyGravityPass(bs) ==
    [i \in DOMAIN bs |->
        IF bs[i].gravity = None THEN bs[i]
        ELSE IF bs[i].state.ground
             THEN [bs[i] EXCEPT !.velocity = <<X(@), 0>>]
             ELSE [bs[i] EXCEPT !.velocity = <<X(@), Y(@) - bs[i].gravity[1]>>]]

\* fn stop_movement
StopMovementPass(bs) ==
    [i \in DOMAIN bs |->
        LET b == bs[i]
            stop_y == (b.state.ceiling \/ b.state.ground)
                        /\ (~b.old_state.ceiling \/ ~b.old_state.ground)
            stop_x == (b.state.left \/ b.state.right)
                        /\ (~b.old_state.left \/ ~b.old_state.right)
        IN  [b EXCEPT !.velocity = << IF stop_x THEN 0 ELSE X(@),
                                      IF stop_y THEN 0 ELSE Y(@) >>]]

----------------------------------------------------------------------------
(* The world the systems run on.  PhysicsPlugin adds the four systems to    *)
(* Update with no ordering between them (physics.rs:12-15): every frame     *)
(* runs each of them once, and any of those still to run may be the next.   *)

\* a length of w world units
L(w) == w * Unit

Masses == {0, 10, 30}

\* a MovingObject with default state and shadow fields, an AABB and, when
\* `gravity` is not None, a Gravity component
Body(mass, aabb, position, velocity, gravity) ==
    [mass |-> mass, aabb |-> aabb, position |-> position, velocity |-> velocity,
     state |-> NoContact,
     old_position |-> <<0, 0>>, old_velocity |-> <<0, 0>>, old_state |-> NoContact,
     gravity |-> gravity]

\* 10 x 10 boxes
Box10 == <<L(5), L(5)>>

\* where the second body stands relative to the first, in world units
SecondAt ==
    { <<2, 0>>, <<-2, 0>>, <<6, 0>>, <<-6, 0>>, <<0, 6>>, <<0, -6>>,
      <<6, 6>>, <<0, 0>>, <<10, 0>>, <<12, 0>> }

ThirdAt == { <<0, 8>>, <<-8, 0>> }

FirstBodies == { Body(m, Box10, <<0, 0>>, <<0, 0>>, None) : m \in Masses }

SecondBodies ==
    { Body(m, Box10, <<L(p[1]), L(p[2])>>, v, <<L(1)>>) :
        m \in Masses, p \in SecondAt, v \in { <<0, 0>>, <<L(-2), L(1)>> } }

ThirdBodies ==
    { Body(m, Box10, <<L(p[1]), L(p[2])>>, <<0, 0>>, None) :
        m \in {0, 10}, p \in ThirdAt }

\* Time::delta_seconds of a frame
Deltas == {1, 2}

\* add_systems(Update, (update_physics, apply_gravity, collisions, stop_movement))
Systems == {"update_physics", "apply_gravity", "collisions", "stop_movement"}

InitPhysics ==
    /\ mode = "physics"
    /\ tree = New(World, Origin, AabbCapacity)
    /\ calls = <<>>
    /\ crashed = FALSE
    /\ found = <<>>
    /\ asked = <<>>
    /\ \E a \in FirstBodies : \E b \in SecondBodies :
          \/ bodies = <<a, b>>
          \/ \E c \in ThirdBodies : bodies = <<a, b, c>>
    /\ last = "none"
    /\ steps = 0
    /\ pending = Systems
    /\ resources = <<>>
    /\ steered = <<>>
    /\ jitters = <<>>
    /\ player = <<>>

\* `system` is the next of the frame's systems to run; the frame after the
\* one it completes runs them all again
Ran(system) ==
    /\ mode = "physics"
    /\ steps < MaxSteps
    /\ system \in pending
    /\ steps' = steps + 1
    /\ last' = system
    /\ pending' = IF pending = {system} THEN Systems ELSE pending \ {system}
    /\ UNCHANGED <<mode, tree, calls, crashed, found, asked, resources, steered, jitters, player>>

UpdatePhysics ==
    /\ \E delta_seconds \in Deltas : bodies' = UpdatePhysicsPass(bodies, delta_seconds)
    /\ Ran("update_physics")

ApplyGravity ==
    /\ bodies' = ApplyGravityPass(bodies)
    /\ Ran("apply_gravity")

Collisions ==
    /\ bodies' = CollisionsPass(bodies)
    /\ Ran("collisions")

StopMovement ==
    /\ bodies' = StopMovementPass(bodies)
    /\ Ran("stop_movement")

NextPhysics == UpdatePhysics \/ ApplyGravity \/ Collisions \/ StopMovement

SpecPhysics == InitPhysics /\ [][NextPhysics]_vars

----------------------------------------------------------------------------
(* Claims about collision resolution *)

\* the step is a run of the collisions system
CollisionsStep == steps' = steps + 1 /\ last' = "collisions"

BodiesCollide(bs, i, j) ==
    Collides(bs[i].aabb, bs[i].position, bs[j].aabb, bs[j].position)

\* C8: a collisions pass leaves the position of every body of mass 0 as it
\* was, and two bodies of mass 0 that no third body overlaps come out of the
\* pass with their positions unchanged and no contact flag set, even when
\* the two overlap.
C8_StaticNeverMoves ==
    [][CollisionsStep =>
        /\ \A i \in DOMAIN bodies :
              bodies[i].mass = 0 => bodies'[i].position = bodies[i].position
        /\ \A i \in DOMAIN bodies : \A j \in DOMAIN bodies :
              ( /\ i # j /\ bodies[i].mass = 0 /\ bodies[j].mass = 0
                /\ \A k \in DOMAIN bodies \ {i, j} :
                      ~BodiesCollide(bodies, k, i) /\ ~BodiesCollide(bodies, k, j) )
              => /\ bodies'[i].position = bodies[i].position
                 /\ bodies'[j].position = bodies[j].position
                 /\ bodies'[i].state = NoContact
                 /\ bodies'[j].state = NoContact
      ]_vars

\* C8, the case: after a pass two bodies of mass 0 still overlap each other,
\* and a body of mass 0 carries a contact flag from a pair that was resolved
\* against it.
C8_Witness ==
    /\ mode = "physics" /\ last = "collisions"
    /\ \E i \in DOMAIN bodies : \E j \in DOMAIN bodies :
          /\ i # j /\ bodies[i].mass = 0 /\ bodies[j].mass = 0
          /\ BodiesCollide(bodies, i, j)
    /\ \E i \in DOMAIN bodies : bodies[i].mass = 0 /\ bodies[i].state # NoContact

\* the coordinate of v on the axis the pass adjusts for the depth
OnAxis(depth, v) == IF AdjustsX(depth) THEN X(v) ELSE Y(v)

\* the step is a pass over one isolated pair that overlaps and is not both
\* of mass 0
PairDepth ==
    PenetrationDepth(bodies[1].aabb, bodies[1].position,
                     bodies[2].aabb, bodies[2].position)

ResolvesPair ==
    /\ CollisionsStep /\ Len(bodies) = 2
    /\ PairDepth # None
    /\ ~(bodies[1].mass = 0 /\ bodies[2].mass = 0)

\* the penetration on the adjusted axis, and how far the step moves A and B
\* along that axis
PairP == OnAxis(PairDepth, PairDepth)
MoveA == OnAxis(PairDepth, bodies'[1].position) - OnAxis(PairDepth, bodies[1].position)
MoveB == OnAxis(PairDepth, bodies'[2].position) - OnAxis(PairDepth, bodies[2].position)

\* the masses are multiples of 10: the masses of A and B over 10
MassA == bodies[1].mass \div 10
MassB == bodies[2].mass \div 10

Sign(x) == IF x < 0 THEN -1 ELSE IF x > 0 THEN 1 ELSE 0

MovedByOthersShare ==
    /\ Abs(MoveA) * (MassA + MassB) = Abs(PairP) * MassB
    /\ Abs(MoveB) * (MassA + MassB) = Abs(PairP) * MassA
    /\ Sign(MoveA) * Sign(MoveB) <= 0

MovedByOwnShare ==
    /\ Abs(MoveA) * (MassA + MassB) = Abs(PairP) * MassA
    /\ Abs(MoveB) * (MassA + MassB) = Abs(PairP) * MassB
    /\ Sign(MoveA) * Sign(PairP) >= 0 /\ Sign(MoveB) * Sign(PairP) <= 0
    /\ Abs(MoveA) + Abs(MoveB) = Abs(PairP)

\* C9 (as claimed): A is displaced by |p| * m_b / (m_a + m_b) and B by
\* |p| * m_a / (m_a + m_b), in opposite directions; with m_a = 10, m_b = 30
\* and p = 8, A moves 6 and B moves 2.
C9_AsClaimed == [][ResolvesPair => MovedByOthersShare]_vars

\* C9 (amended): A is displaced by |p| * m_a / (m_a + m_b) and B by
\* |p| * m_b / (m_a + m_b), A along the sign of p and B against it, the two
\* displacements summing to |p|; with m_a = 10, m_b = 30 and p = 8, A moves
\* 2 and B moves 6.
C9_MassRatio == [][ResolvesPair => MovedByOwnShare]_vars

\* C9, the case: the pass over A at (0, 0) of mass 10 and B at (2, 0) of
\* mass 30, 10 x 10 boxes overlapping by 8 on X, has moved A 2 to the left
\* and B 6 to the right.
C9_Witness ==
    /\ mode = "physics" /\ last = "collisions" /\ steps = 1 /\ Len(bodies) = 2
    /\ bodies[1].mass = 10 /\ bodies[2].mass = 30
    /\ bodies[1].position = <<L(-2), 0>>
    /\ bodies[2].position = <<L(8), 0>>
    /\ bodies[1].state.right /\ bodies[2].state.left

HasContact(b) == b.state # NoContact
ContactX(b) == b.state.left \/ b.state.right
ContactY(b) == b.state.ground \/ b.state.ceiling

\* C10: after a pass over a single isolated pair that is not both of mass
\* 0, the exact overlap test of the two is false, and on the axis the pass
\* adjusted the two boxes touch edge to edge: no penetration is left.
C10_Separation ==
    ( /\ mode = "physics" /\ last = "collisions" /\ Len(bodies) = 2
      /\ ~(bodies[1].mass = 0 /\ bodies[2].mass = 0) )
    => LET a == bodies[1]
           b == bodies[2]
       IN  /\ ~BodiesCollide(bodies, 1, 2)
           /\ ContactX(a) =>
                 Abs(X(a.position) - X(b.position)) = X(a.aabb) + X(b.aabb)
           /\ ContactY(a) =>
                 Abs(Y(a.position) - Y(b.position)) = Y(a.aabb) + Y(b.aabb)

\* C10, the case: a pass resolved an isolated pair, one body of which has
\* mass 0, and left the two apart.
C10_Witness ==
    /\ mode = "physics" /\ last = "collisions" /\ Len(bodies) = 2
    /\ bodies[1].mass = 0 /\ bodies[2].mass = 30
    /\ HasContact(bodies[1]) /\ HasContact(bodies[2])
    /\ ~BodiesCollide(bodies, 1, 2)

----------------------------------------------------------------------------
(* Claims about the contact flags *)

Only(flag) == [NoContact EXCEPT ![flag] = TRUE]

\* the flags the step leaves on A and on B
FlagsAre(a_flag, b_flag) ==
    bodies'[1].state = Only(a_flag) /\ bodies'[2].state = Only(b_flag)

\* the 10 x 10 boxes of mass 10 whose centres are 6 apart on X and 0 on Y
SixApart ==
    /\ Len(bodies) = 2
    /\ bodies[1].mass = 10 /\ bodies[2].mass = 10
    /\ bodies[1].aabb = Box10 /\ bodies[2].aabb = Box10
    /\ bodies[1].position = <<0, 0>> /\ bodies[2].position = <<L(6), 0>>

\* C11: a pass over one isolated pair (A, B) that it resolves on X leaves
\* touching-left on the body whose centre is further right and
\* touching-right on the other (penetration.x >= 0: A left, B right,
\* otherwise the mirror); resolved on Y, it leaves on-ground on the body
\* whose centre is higher and at-ceiling on the other; no other flag is set.
\* Two 10 x 10 boxes of mass 10 with centres 6 apart on X and 0 on Y are
\* resolved on X only, each moves 2 away from the other, and they get
\* mirrored left/right flags and no ground/ceiling flag.
C11_FlagPolarity ==
    [][ResolvesPair =>
        LET a == bodies[1].position
            b == bodies[2].position
        IN  /\ AdjustsX(PairDepth) =>
                /\ X(a) > X(b) => FlagsAre("left", "right")
                /\ X(a) < X(b) => FlagsAre("right", "left")
                /\ X(PairDepth) >= 0 => FlagsAre("left", "right")
                /\ X(PairDepth) < 0 => FlagsAre("right", "left")
            /\ ~AdjustsX(PairDepth) =>
                /\ Y(a) > Y(b) => FlagsAre("ground", "ceiling")
                /\ Y(a) < Y(b) => FlagsAre("ceiling", "ground")
                /\ Y(PairDepth) >= 0 => FlagsAre("ground", "ceiling")
                /\ Y(PairDepth) < 0 => FlagsAre("ceiling", "ground")
            /\ SixApart =>
                /\ bodies'[1].position = <<L(-2), 0>>
                /\ bodies'[2].position = <<L(8), 0>>
                /\ FlagsAre("right", "left")
      ]_vars

\* C11, the case: the pass over the two boxes 6 apart has moved each by 2
\* and set touching-right on the left one and touching-left on the right one.
C11_Witness ==
    /\ mode = "physics" /\ last = "collisions" /\ steps = 1 /\ Len(bodies) = 2
    /\ bodies[1].mass = 10 /\ bodies[2].mass = 10
    /\ bodies[1].position = <<L(-2), 0>> /\ bodies[2].position = <<L(8), 0>>
    /\ bodies[1].state = Only("right") /\ bodies[2].state = Only("left")

\* the bodies as the pass finds them when it comes to the k-th combination
Unset(bs) == [i \in DOMAIN bs |-> [bs[i] EXCEPT !.state = NoContact]]
WhenReached(k) ==
    ResolveAll(Unset(bodies), SubSeq(Combinations(Len(bodies)), 1, k - 1))

\* body i is in a combination, not both of mass 0, whose overlap test the
\* pass finds true
InOverlappingPair(i) ==
    \E k \in DOMAIN Combinations(Len(bodies)) :
        LET pair == Combinations(Len(bodies))[k]
            bs == WhenReached(k)
        IN  /\ i \in {pair[1], pair[2]}
            /\ ~(bs[pair[1]].mass = 0 /\ bs[pair[2]].mass = 0)
            /\ BodiesCollide(bs, pair[1], pair[2])

\* C12: at the end of a collisions pass a body carries a contact flag only
\* if, during that pass, it was in a pair (not both of mass 0) whose overlap
\* test was true; whatever flags it carried before the pass, a body that
\* overlaps nothing during the pass comes out with none.
C12_FlagsThisTick ==
    [][CollisionsStep =>
        \A i \in DOMAIN bodies :
            /\ HasContact(bodies'[i]) => InOverlappingPair(i)
            /\ ~InOverlappingPair(i) => bodies'[i].state = NoContact
      ]_vars

\* C12, the case: a body whose flags of the previous pass were snapshot into
\* old_state has come out of this pass with no flag.
C12_Witness ==
    /\ mode = "physics" /\ last = "collisions"
    /\ \E i \in DOMAIN bodies :
          HasContact([state |-> bodies[i].old_state]) /\ ~HasContact(bodies[i])

----------------------------------------------------------------------------
(* Claims about the integrator *)

UpdatePhysicsStep == steps' = steps + 1 /\ last' = "update_physics"
ApplyGravityStep == steps' = steps + 1 /\ last' = "apply_gravity"

C14_GravityStep ==
    [][ApplyGravityStep =>
        /\ DOMAIN bodies' = DOMAIN bodies
        /\ \A i \in DOMAIN bodies :
              LET was == bodies[i]
                  now == bodies'[i]
              IN  /\ was.gravity = None => now = was
                  /\ was.gravity # None =>
                        /\ Y(now.velocity) = IF was.state.ground THEN 0
                                             ELSE Y(was.velocity) - was.gravity[1]
                        /\ X(now.velocity) = X(was.velocity)
                        /\ now = [was EXCEPT !.velocity = now.velocity]
      ]_vars

\* C14, the case: apply_gravity has run on a body that is on the ground and
\* was rising: its vertical velocity is 0 and its horizontal velocity kept.
C14_Witness ==
    /\ mode = "physics" /\ last = "apply_gravity" /\ steps = 2
    /\ bodies[2].state.ground
    /\ bodies[2].velocity = <<L(-2), 0>>

\* C15: in every frame the collisions system runs after update_physics has
\* run: no frame resolves collisions before it integrates the positions.
C15_FixedOrder ==
    [][CollisionsStep => "update_physics" \notin pending]_vars

----------------------------------------------------------------------------
(* The flocking system: src/src/boids.rs:53-181                             *)
(*                                                                          *)
(* Numbers.  Lengths and speeds are integers in units of 1/Fine.  A Vec2 is *)
(* a pair, or NaNVec when its coordinates are NaN: 0.0 * inf, which is what *)
(* Vec2::normalize makes of the zero vector.  Every comparison with NaN is  *)
(* false and every sum with NaN is NaN.  The flock lies on a line along one *)
(* axis: the positions, the velocities and the jitter have their other      *)
(* coordinate 0, so the length of a vector is the absolute value of a       *)
(* coordinate and scaling a vector to a length is exact.  Quotients         *)
(* truncate; with the positions and velocities of the first frame none has  *)
(* a remainder.                                                             *)

\* the resolution: the count of two neighbours times 1 / centering_factor
Fine == 2 * 200
F(w) == w * Fine

NaNVec == <<>>
IsNaN(v) == v = NaNVec

\* Vec2::ZERO
ZERO == <<0, 0>>

\* a / b, truncated
Quot(a, b) == Sign(a) * Sign(b) * (Abs(a) \div Abs(b))

Plus(u, v) ==
    IF IsNaN(u) \/ IsNaN(v) THEN NaNVec ELSE <<X(u) + X(v), Y(u) + Y(v)>>

Minus(u, v) ==
    IF IsNaN(u) \/ IsNaN(v) THEN NaNVec ELSE <<X(u) - X(v), Y(u) - Y(v)>>

\* v * (num / den)
Scaled(v, num, den) ==
    IF IsNaN(v) THEN NaNVec ELSE <<Quot(X(v) * num, den), Quot(Y(v) * num, den)>>

\* Vec2::length of a vector on an axis
Length(v) == Abs(X(v)) + Abs(Y(v))

\* u.distance(v) > 0.0
Apart(u, v) == ~IsNaN(Minus(u, v)) /\ Length(Minus(u, v)) > 0

\* v.normalize() * length, for a vector on an axis
Normalized(v, length) ==
    IF IsNaN(v) \/ v = ZERO THEN NaNVec
    ELSE <<Sign(X(v)) * length, Sign(Y(v)) * length>>

\* (u - v).normalize() * (factor / u.distance(v))
Away(u, v, factor) ==
    Normalized(Minus(u, v), Quot(factor * Fine, Length(Minus(u, v))))

\* the closure of the fold over the boids in view, and the fold
RECURSIVE Fold(_, _, _, _, _)
Fold(bs, a_entity, others, boid_params, acc) ==
    IF others = <<>> THEN acc
    ELSE LET b_entity == Head(others)
             a_position == bs[a_entity].position
             b_position == bs[b_entity].position
             b_velocity == bs[b_entity].velocity
         IN  IF a_entity = b_entity
             THEN Fold(bs, a_entity, Tail(others), boid_params, acc)
             ELSE Fold(bs, a_entity, Tail(others), boid_params,
                    [final_velocity |->
                        IF Apart(a_position, b_position)
                        THEN Plus(acc.final_velocity,
                                  Away(a_position, b_position, boid_params.avoid_factor))
                        ELSE acc.final_velocity,
                     total_position |-> Plus(acc.total_position, b_position),
                     total_velocity |-> Plus(acc.total_velocity, b_velocity),
                     boids_amount |-> acc.boids_amount + 1])

\* Steer away from edges of the window
EdgeAvoidance(final_velocity, a_position, boid_params, window) ==
    LET window_halfsize == <<Half(X(window)), Half(Y(window))>>
        distance == boid_params.edge_avoidance_distance
        strength == boid_params.edge_avoidance_strength
        Push(at, halfsize) ==
            IF at < -halfsize + distance THEN strength
            ELSE IF at > halfsize - distance THEN -strength
            ELSE 0
    IN  IF IsNaN(a_position) THEN final_velocity
        ELSE Plus(final_velocity, << Push(X(a_position), X(window_halfsize)),
                                     Push(Y(a_position), Y(window_halfsize)) >>)

\* Avoid player
PlayerAvoidance(final_velocity, a_position, boid_params, player_position) ==
    IF /\ boid_params.avoid_player
       /\ Apart(a_position, player_position)
       /\ Length(Minus(a_position, player_position)) < boid_params.avoid_player_distance
    THEN Plus(final_velocity,
              Away(a_position, player_position, boid_params.avoid_player_factor))
    ELSE final_velocity

\* steer towards percieved center
Centering(final_velocity, a_position, total_position, boids_amount, boid_params) ==
    IF boids_amount > 0
    THEN LET percieved_center ==
                Scaled(Minus(total_position, a_position), 1, boids_amount)
             factor == boid_params.centering_factor
         IN  IF boid_params.disperse
             THEN Plus(final_velocity,
                       Scaled(Scaled(Minus(a_position, percieved_center),
                                     factor.num, factor.den),
                              boid_params.disperse_factor, 1))
             ELSE Plus(final_velocity,
                       Scaled(Minus(percieved_center, a_position),
                              factor.num, factor.den))
    ELSE final_velocity

\* steer in the same direction as the other boids; the division by the
\* positive boids_amount does not change what normalize returns
Matching(final_velocity, a_velocity, total_velocity, boids_amount, boid_params) ==
    IF boids_amount > 0
    THEN LET percieved_velocity ==
                Normalized(Minus(total_velocity, a_velocity), boid_params.max_velocity)
             factor == boid_params.matching_factor
         IN  Plus(final_velocity,
                  Scaled(Minus(percieved_velocity, a_velocity), factor.num, factor.den))
    ELSE final_velocity

ClampedWithoutGuard(final_velocity, boid_params) ==
    IF IsNaN(final_velocity) THEN final_velocity
    ELSE IF Length(final_velocity) > boid_params.max_velocity
         THEN Normalized(final_velocity, boid_params.max_velocity)
    ELSE IF Length(final_velocity) < boid_params.min_velocity
         THEN Normalized(final_velocity, boid_params.min_velocity)
    ELSE final_velocity

\* Normalize velocity
Clamped(final_velocity, boid_params) ==
    IF IsNaN(final_velocity) THEN final_velocity
    ELSE IF Length(final_velocity) > 0
         THEN IF Length(final_velocity) > boid_params.max_velocity
              THEN Normalized(final_velocity, boid_params.max_velocity)
              ELSE IF Length(final_velocity) < boid_params.min_velocity
                   THEN Normalized(final_velocity, boid_params.min_velocity)
                   ELSE final_velocity
    ELSE final_velocity

\* final_velocity of a_entity before the random movement, from the
\* MovingObjects as they are when the loop comes to a_entity
Steering(bs, a_entity, others, res) ==
    LET boid_params == res.boid_params
        folded == Fold(bs, a_entity, others, boid_params,
                       [final_velocity |-> ZERO, total_position |-> ZERO,
                        total_velocity |-> ZERO, boids_amount |-> 0])
        a_position == bs[a_entity].position
        a_velocity == bs[a_entity].velocity
        from_edges == EdgeAvoidance(folded.final_velocity, a_position,
                                    boid_params, res.window)
        from_player == PlayerAvoidance(from_edges, a_position, boid_params, res.player)
        centered == Centering(from_player, a_position, folded.total_position,
                              folded.boids_amount, boid_params)
        matched == Matching(centered, a_velocity, folded.total_velocity,
                            folded.boids_amount, boid_params)
    IN  Clamped(matched, boid_params)

Replaced(velocity, final_velocity, boid_params) ==
    Scaled(final_velocity, boid_params.multiplier, 1)

\* a_moving_object.velocity.value += final_velocity * boid_params.multiplier
Accelerated(velocity, final_velocity, boid_params) ==
    Plus(velocity, Scaled(final_velocity, boid_params.multiplier, 1))

\* the loop over the boids and the boids in their view range: each boid's
\* velocity is written before the loop comes to the next boid
RECURSIVE MoveEach(_, _, _, _, _, _)
MoveEach(bs, boids, k, res, jitter, log) ==
    IF k > Len(boids) THEN [bodies |-> bs, steered |-> log]
    ELSE LET a_entity == boids[k][1]
             final_velocity == Steering(bs, a_entity, boids[k][2], res)
         IN  MoveEach([bs EXCEPT ![a_entity].velocity =
                          Accelerated(@, Plus(final_velocity, jitter[a_entity]),
                                      res.boid_params)],
                      boids, k + 1, res, jitter, Append(log, final_velocity))

\* MapAabb.size of the flock's world
MapSize == <<F(64), F(64)>>

\* fn build_point_quadtree: the boids' insert calls, their results dropped;
\* a position of NaN is in no box
RECURSIVE InsertBoids(_, _, _)
InsertBoids(built, bs, k) ==
    IF k > Len(bs) \/ built.overflow THEN built
    ELSE InsertBoids(
            IF IsNaN(bs[k].position) THEN built
            ELSE PointInsert(built.node, Entry(k, <<Flat, bs[k].position>>), StackDepth),
            bs, k + 1)

BuildPointQuadtree(bs) ==
    InsertBoids(Ret(New(MapSize, ZERO, PointCapacity), TRUE), bs, 1)

\* collect all boids and the boids in their view range
InView(quadtree, bs, boid_params) ==
    [k \in DOMAIN bs |->
        <<k, IF IsNaN(bs[k].position) THEN <<>>
             ELSE Query(quadtree, boid_params.view_distance_aabb, bs[k].position)>>]

\* fn move_boids, for the jitter the random generator yields
MoveBoidsPass(bs, res, jitter) ==
    LET built == BuildPointQuadtree(bs)
    IN  IF built.overflow
        THEN [bodies |-> bs, steered |-> <<>>, quadtree |-> built.node, overflow |-> TRUE]
        ELSE LET moved == MoveEach(bs, InView(built.node, bs, res.boid_params),
                                   1, res, jitter, <<>>)
             IN  [bodies |-> moved.bodies, steered |-> moved.steered,
                  quadtree |-> built.node, overflow |-> FALSE]

\* fn update_physics on the boids, whose vectors may be NaN
UpdatePhysicsOfBoids(bs, delta_seconds) ==
    [i \in DOMAIN bs |->
        [bs[i] EXCEPT
            !.old_position = bs[i].position,
            !.old_velocity = bs[i].velocity,
            !.old_state = bs[i].state,
            !.position = Plus(bs[i].position, Scaled(bs[i].velocity, delta_seconds, 1))]]

----------------------------------------------------------------------------
(* The flock the systems run on.  A boid is a MovingObject with a Transform *)
(* and no AABB or Gravity (boids.rs:211-232): of the Update systems,        *)
(* update_physics and move_boids change it, in either order                 *)
(* (physics.rs:12-15, boids.rs:21); stop_movement finds none of its flags   *)
(* set and leaves it as it is.                                              *)

\* the BoidParameters spawn_boids inserts, with the two public switches
SpawnParameters(avoid_player, disperse) ==
    [max_velocity |-> F(600), min_velocity |-> F(40),
     view_distance_aabb |-> <<F(25), F(25)>>,
     avoid_factor |-> F(3),
     centering_factor |-> [num |-> 5, den |-> 1000],
     matching_factor |-> [num |-> 1, den |-> 10],
     multiplier |-> 2,
     random_factor |-> [num |-> 1, den |-> 10],
     disperse |-> disperse, disperse_factor |-> 20,
     avoid_player |-> avoid_player,
     avoid_player_factor |-> F(2000), avoid_player_distance |-> F(32),
     edge_avoidance_distance |-> F(10), edge_avoidance_strength |-> F(10)]

\* (rng.gen::<f32>() - 0.5) * max_velocity * random_factor, for a random
\* number of so many quarters
Jitter(quarters, boid_params) ==
    Quot((quarters - 2) * boid_params.max_velocity * boid_params.random_factor.num,
         4 * boid_params.random_factor.den)

\* the random numbers drawn for the coordinate along the flock's line; the
\* number drawn for the other coordinate is 0.5
Draws == {0, 3}

\* the vector of coordinate s on the flock's line
Along(line, s) == IF line = "x" THEN <<s, 0>> ELSE <<0, s>>

\* where the boids stand on the line, in world units, and how fast they move
Scenes ==
    { <<0>>, <<-8>>, <<0, 4>>, <<0, 0>>, <<-8, 8>>, <<-8, 0, 4>> }

Speeds == {-200, 0, 200}

\* width and height of the primary window, and where the player stands
Windows == { <<F(32), F(32)>>, <<F(800), F(600)>> }

PlayerAt == 8

\* Time::delta_seconds of the flock's frames
FlockDeltas == {1}

BoidSystems == {"update_physics", "move_boids"}

InitBoids ==
    /\ mode = "boids"
    /\ tree = New(MapSize, ZERO, PointCapacity)
    /\ calls = <<>>
    /\ crashed = FALSE
    /\ found = <<>>
    /\ asked = <<>>
    /\ \E line \in {"x", "y"} : \E scene \in Scenes : \E window \in Windows :
       \E avoid_player \in BOOLEAN : \E disperse \in BOOLEAN :
       \E speed \in [DOMAIN scene -> Speeds] :
          /\ bodies = [k \in DOMAIN scene |->
                          Body(0, None, Along(line, F(scene[k])),
                               Along(line, F(speed[k])), None)]
          /\ resources = [boid_params |-> SpawnParameters(avoid_player, disperse),
                          window |-> window,
                          player |-> Along(line, F(PlayerAt)),
                          line |-> line]
    /\ last = "none"
    /\ steps = 0
    /\ pending = BoidSystems
    /\ steered = <<>>
    /\ jitters = <<>>
    /\ player = <<>>

FlockRan(system) ==
    /\ mode = "boids" /\ ~crashed
    /\ steps < MaxFlockSteps
    /\ system \in pending
    /\ steps' = steps + 1
    /\ last' = system
    /\ pending' = IF pending = {system} THEN BoidSystems ELSE pending \ {system}
    /\ UNCHANGED <<mode, calls, found, asked, resources, player>>

MoveBoids ==
    /\ FlockRan("move_boids")
    /\ \E draw \in [DOMAIN bodies -> Draws] :
          LET jitter == [k \in DOMAIN bodies |->
                            Along(resources.line, Jitter(draw[k], resources.boid_params))]
              pass == MoveBoidsPass(bodies, resources, jitter)
          IN  /\ bodies' = pass.bodies
              /\ steered' = pass.steered
              /\ jitters' = jitter
              /\ tree' = pass.quadtree
              /\ crashed' = pass.overflow

UpdatePhysicsOnBoids ==
    /\ FlockRan("update_physics")
    /\ \E delta_seconds \in FlockDeltas :
          bodies' = UpdatePhysicsOfBoids(bodies, delta_seconds)
    /\ UNCHANGED <<tree, crashed, steered, jitters>>

NextBoids == MoveBoids \/ UpdatePhysicsOnBoids

SpecBoids == InitBoids /\ [][NextBoids]_vars

----------------------------------------------------------------------------
(* Claims about the flocking pass *)

\* the step is a run of move_boids through to its end
MoveBoidsStep == steps' = steps + 1 /\ last' = "move_boids" /\ ~crashed'

\* the boids the step's query yields for boid i
Neighbours(i) == InView(tree', bodies, resources.boid_params)[i][2]

\* C16: the steering move_boids computes for every agent is the steering
\* computed from the positions and velocities all agents held at the start
\* of the pass: no velocity written in the pass is read by the aggregation
\* of an agent processed later in it.
C16_SnapshotConsistency ==
    [][MoveBoidsStep =>
        \A i \in DOMAIN bodies :
            steered'[i] = Steering(bodies, i, Neighbours(i), resources)
      ]_vars

\* C17: after a pass the steering vector of every agent, clamped and before
\* the jitter, has magnitude 0 or a magnitude in [min_velocity, max_velocity].
C17_SpeedClamp ==
    (mode = "boids" /\ last = "move_boids" /\ ~crashed) =>
        \A i \in DOMAIN steered :
            /\ ~IsNaN(steered[i])
            /\ \/ Length(steered[i]) = 0
               \/ /\ resources.boid_params.min_velocity <= Length(steered[i])
                  /\ Length(steered[i]) <= resources.boid_params.max_velocity

\* the position is further than edge_avoidance_distance from every edge of
\* the window
FarFromEdges(position) ==
    LET halfsize == <<Half(X(resources.window)), Half(Y(resources.window))>>
        distance == resources.boid_params.edge_avoidance_distance
    IN  /\ ~IsNaN(position)
        /\ X(position) + X(halfsize) > distance
        /\ X(halfsize) - X(position) > distance
        /\ Y(position) + Y(halfsize) > distance
        /\ Y(halfsize) - Y(position) > distance

\* C18: an agent whose query yields no neighbour other than itself, with
\* predator avoidance disabled and further than edge_avoidance_distance from
\* every edge, gets a steering vector of exactly zero before the jitter.
C18_IsolatedBoid ==
    [][MoveBoidsStep =>
        \A i \in DOMAIN bodies :
            ( /\ Range(Neighbours(i)) \subseteq {i}
              /\ ~resources.boid_params.avoid_player
              /\ FarFromEdges(bodies[i].position) )
            => steered'[i] = ZERO
      ]_vars

\* C18, the case: a pass over a lone boid far from the edges, with predator
\* avoidance disabled, has steered it by zero and moved its velocity by the
\* jitter alone.
C18_Witness ==
    /\ mode = "boids" /\ last = "move_boids" /\ steps = 1 /\ Len(bodies) = 1
    /\ ~resources.boid_params.avoid_player
    /\ FarFromEdges(bodies[1].position)
    /\ steered = <<ZERO>>
    /\ jitters[1] # ZERO
    /\ bodies[1].velocity # ZERO

\* the velocity a boid has after being steered and jittered so
Added(velocity, steering, jitter) ==
    Plus(velocity, Scaled(Plus(steering, jitter), resources.boid_params.multiplier, 1))

\* C19: after a pass the velocity of every agent is its velocity before the
\* pass plus (clamped steering + jitter) * multiplier, and its position is
\* the position it had before the pass.
C19_AdditiveVelocity ==
    [][MoveBoidsStep =>
        \A i \in DOMAIN bodies :
            /\ bodies'[i].velocity = Added(bodies[i].velocity, steered'[i], jitters'[i])
            /\ bodies'[i].position = bodies[i].position
      ]_vars

\* C19, the case: a pass has steered and jittered a boid among neighbours
\* that was moving before the pass: its velocity is not the steering alone.
C19_Witness ==
    /\ mode = "boids" /\ last = "move_boids" /\ steps = 1 /\ Len(bodies) = 3
    /\ \E i \in DOMAIN bodies :
          /\ ~IsNaN(bodies[i].velocity)
          /\ steered[i] # ZERO /\ jitters[i] # ZERO
          /\ bodies[i].velocity # Added(ZERO, steered[i], jitters[i])


----------------------------------------------------------------------------
(* Claims about subdivision *)

\* the node of a tree that covers the same box as the given node
SameBox(node, other) ==
    node.boundary = other.boundary /\ node.center = other.center

\* the leaves of the tree that the step divides, each with what it became
Divided(before, after) ==
    { pair \in Nodes(before) \X Nodes(after) :
        /\ SameBox(pair[1], pair[2])
        /\ ~pair[1].divided
        /\ pair[2].divided }

\* what the claim says of one step: every leaf the step divides keeps, below
\* it, each entry it held, and keeps none in its own list
KeepsEntries(before, after) ==
    \A pair \in Divided(before, after) :
        /\ Range(Ids(pair[1].objects)) \subseteq StoredIds(pair[2])
        /\ Len(pair[2].objects) = 0

\* C21 (as claimed): when an insert divides a full leaf of the box tree or of
\* the point tree, every entry the leaf held before the call is stored in a
\* leaf below it when the call returns, and the divided node's own list is
\* empty.
C21_RedistributionLosesNothing ==
    [][(mode = "aabb" \/ mode = "point") => KeepsEntries(tree, tree')]_vars


----------------------------------------------------------------------------
(* Claims about the resolution of one pair *)

\* how far the step moves body i along X and along Y
MovedX(i) == X(bodies'[i].position) - X(bodies[i].position)
MovedY(i) == Y(bodies'[i].position) - Y(bodies[i].position)

\* C22: a pass over one isolated overlapping pair resolves exactly one axis,
\* X iff |penetration.x| < |penetration.y| and Y otherwise (a tie resolves
\* Y); along that axis A moves by +penetration * m_a / (m_a + m_b) and B by
\* -penetration * m_b / (m_a + m_b), and neither moves along the other axis.
C22_AxisSelection ==
    [][ResolvesPair =>
          IF Abs(X(PairDepth)) < Abs(Y(PairDepth))
          THEN /\ MovedX(1) * (MassA + MassB) = X(PairDepth) * MassA
               /\ MovedX(2) * (MassA + MassB) = (0 - X(PairDepth)) * MassB
               /\ MovedY(1) = 0 /\ MovedY(2) = 0
          ELSE /\ MovedY(1) * (MassA + MassB) = Y(PairDepth) * MassA
               /\ MovedY(2) * (MassA + MassB) = (0 - Y(PairDepth)) * MassB
               /\ MovedX(1) = 0 /\ MovedX(2) = 0
      ]_vars

\* C22, the case: A at (0, 0) and B at (6, 6), both of mass 10 with 10 x 10
\* boxes, overlap by 4 on each axis; the first pass of the run resolved the
\* tie on Y, moving A down by 2 and B up by 2 and leaving both on their X.
C22_Witness ==
    /\ mode = "physics" /\ last = "collisions" /\ steps = 1 /\ Len(bodies) = 2
    /\ bodies[1].mass = 10 /\ bodies[2].mass = 10
    /\ bodies[1].position = <<0, L(-2)>>
    /\ bodies[2].position = <<L(6), L(8)>>
    /\ ContactY(bodies[1]) /\ ~ContactX(bodies[1])

\* the lower and the upper edge of a body's box on an axis (1 is X, 2 is Y)
LowerEdge(b, axis) == b.position[axis] - b.aabb[axis]
UpperEdge(b, axis) == b.position[axis] + b.aabb[axis]

\* the four strict half-plane conditions of the overlap test
StrictlyOverlap(a, b) ==
    \A axis \in {1, 2} :
        LowerEdge(a, axis) < UpperEdge(b, axis) /\ UpperEdge(a, axis) > LowerEdge(b, axis)

DepthOf(a, b) == PenetrationDepth(a.aabb, a.position, b.aabb, b.position)

\* C23: for every ordered pair of bodies of every reachable world,
\* penetration_depth returns None exactly when the four strict half-plane
\* conditions fail; when they hold it returns, on each axis, B's upper edge
\* minus A's lower edge, a positive number, if A's centre is strictly greater
\* than B's on that axis, and B's lower edge minus A's upper edge, a negative
\* number, otherwise.
C23_PenetrationDepth ==
    mode = "physics" =>
        \A i \in DOMAIN bodies : \A j \in DOMAIN bodies \ {i} :
            LET a == bodies[i]
                b == bodies[j]
            IN  /\ (DepthOf(a, b) = None) <=> ~StrictlyOverlap(a, b)
                /\ StrictlyOverlap(a, b) =>
                      \A axis \in {1, 2} :
                          IF a.position[axis] > b.position[axis]
                          THEN /\ DepthOf(a, b)[axis] = UpperEdge(b, axis) - LowerEdge(a, axis)
                               /\ DepthOf(a, b)[axis] > 0
                          ELSE /\ DepthOf(a, b)[axis] = LowerEdge(b, axis) - UpperEdge(a, axis)
                               /\ DepthOf(a, b)[axis] < 0

\* C23, the case: a world some systems have run on, in which one pair
\* overlaps with A's centre right of B's and level with it, so that the
\* depth is positive on X and negative on Y, and another pair only touches
\* edge to edge, so that the depth is None.
C23_Witness ==
    /\ mode = "physics" /\ steps > 0
    /\ \E i \in DOMAIN bodies : \E j \in DOMAIN bodies \ {i} :
          /\ StrictlyOverlap(bodies[i], bodies[j])
          /\ X(bodies[i].position) > X(bodies[j].position)
          /\ Y(bodies[i].position) = Y(bodies[j].position)
          /\ X(DepthOf(bodies[i], bodies[j])) > 0
          /\ Y(DepthOf(bodies[i], bodies[j])) < 0
    /\ \E i \in DOMAIN bodies : \E j \in DOMAIN bodies \ {i} :
          /\ UpperEdge(bodies[i], 1) = LowerEdge(bodies[j], 1)
          /\ Y(bodies[i].position) = Y(bodies[j].position)
          /\ DepthOf(bodies[i], bodies[j]) = None

\* body i is in a combination, not both of mass 0, that the pass finds
\* overlapping and resolves on the axis (1 is X, 2 is Y)
ResolvedOn(i, axis) ==
    \E k \in DOMAIN Combinations(Len(bodies)) :
        LET pair == Combinations(Len(bodies))[k]
            bs == WhenReached(k)
            depth == DepthOf(bs[pair[1]], bs[pair[2]])
        IN  /\ i \in {pair[1], pair[2]}
            /\ ~(bs[pair[1]].mass = 0 /\ bs[pair[2]].mass = 0)
            /\ depth # None
            /\ (axis = 1) <=> (Abs(X(depth)) < Abs(Y(depth)))

\* C24: a collisions pass changes nothing of a body but its contact flags
\* and its position: velocity, mass, box, gravity, old_position,
\* old_velocity and old_state are as before the pass, and a position
\* coordinate differs from before only if the body was in an overlapping
\* pair that the pass resolved on that axis.
C24_ResolverFrame ==
    [][CollisionsStep =>
        \A i \in DOMAIN bodies :
            /\ bodies'[i] = [bodies[i] EXCEPT !.state = bodies'[i].state,
                                              !.position = bodies'[i].position]
            /\ bodies'[i].velocity = bodies[i].velocity
            /\ bodies'[i].mass = bodies[i].mass
            /\ bodies'[i].old_position = bodies[i].old_position
            /\ bodies'[i].old_velocity = bodies[i].old_velocity
            /\ bodies'[i].old_state = bodies[i].old_state
            /\ \A axis \in {1, 2} :
                  bodies'[i].position[axis] # bodies[i].position[axis]
                      => ResolvedOn(i, axis)
      ]_vars

\* C24, the case: a pass has flagged a body of positive mass that is moving
\* and whose old_velocity and old_state hold what an earlier frame left:
\* the pass moved it and kept all three.
C24_Witness ==
    /\ mode = "physics" /\ last = "collisions"
    /\ \E i \in DOMAIN bodies :
          /\ HasContact(bodies[i]) /\ bodies[i].mass > 0
          /\ bodies[i].velocity # <<0, 0>>
          /\ bodies[i].old_velocity # <<0, 0>>
          /\ bodies[i].old_state # NoContact

----------------------------------------------------------------------------
(* Claims about the capacity of leaves *)

\* the capacity the tree of the run was created with
CreatedWith == IF mode = "point" THEN PointCapacity ELSE AabbCapacity

\* C25: in the box tree and in the point tree, after every insert call no
\* leaf holds more entries than the capacity the tree was created with, and
\* every node that was divided before the call is divided after it.
C25_LeafCapacity ==
    [][(mode = "aabb" \/ mode = "point") =>
          /\ \A n \in Nodes(tree') :
                ~n.divided => Len(n.objects) <= CreatedWith
          /\ \A n \in Nodes(tree) :
                n.divided => \E m \in Nodes(tree') : SameBox(n, m) /\ m.divided
      ]_vars

\* C25, the case: more entries than one leaf may hold were accepted, the root
\* is divided, and one of its leaves is filled to the capacity.
C25_Witness ==
    /\ (mode = "aabb" \/ mode = "point")
    /\ Cardinality(Accepted) > CreatedWith
    /\ tree.divided
    /\ \E n \in Nodes(tree) : ~n.divided /\ Len(n.objects) = CreatedWith

----------------------------------------------------------------------------
(* The player (player.rs) *)

\* Velocities are whole numbers of pixels per second, lengths whole pixels;
\* a maneuverability is given in tenths, so that 0.5 and 0.7 are 5 and 7.
\* The quotient of the stretched hitbox is truncated to a whole pixel.

PLAYER_SPEED == 200
PLAYER_JUMP_FORCE == 40
JUMP_TIME == 15
TILE_SIZE == 64

\* number of systems run on the player in one behaviour
MaxPlayerSteps == 32

\* arithmetic of u8
U8(n) == n % 256

\* Option<u8>::Some
Some(n) == <<n>>

\* Jump::new
Jump(jump_state, jump_force) == [jump_state |-> jump_state, jump_force |-> jump_force]

\* enum PlayerState; the payload of LoadingJump is <<jump>>
Standing == [variant |-> "Standing", payload |-> <<>>]
Walking == [variant |-> "Walking", payload |-> <<>>]
LoadingJump(jump) == [variant |-> "LoadingJump", payload |-> <<jump>>]
Jumping == [variant |-> "Jumping", payload |-> <<>>]

\* fn spawn_player: the components movement_controls queries
SpawnPlayer ==
    [player_state |-> Standing,
     moving_object |-> [velocity |-> <<0, 0>>, state |-> NoContact],
     sprite |-> [flip_x |-> FALSE, custom_size |-> <<TILE_SIZE, TILE_SIZE>>],
     aabb |-> <<TILE_SIZE \div 2, TILE_SIZE \div 2>>,
     stretching |-> [stretch_speed |-> 100,
                     volume |-> (TILE_SIZE \div 2) * (TILE_SIZE \div 2),
                     min_stretch |-> 10,
                     currently_stretching |-> FALSE]]

\* the walk to one side of move_horizontal: `touching` is state.left or
\* state.right, `speed` the signed PLAYER_SPEED * maneuverability
Sideways(p, touching, speed, flip_x, change_state) ==
    [p EXCEPT !.player_state = IF change_state THEN Walking ELSE @,
              !.moving_object.velocity = IF touching THEN <<0, Y(@)>>
                                         ELSE <<speed, Y(@)>>,
              !.sprite.flip_x = IF touching THEN @ ELSE flip_x]

\* fn move_horizontal
MoveHorizontal(maneuverability, keyboard_input, p, change_state) ==
    LET moved ==
            IF ("KeyD" \in keyboard_input) = ("KeyA" \in keyboard_input)
            THEN [p EXCEPT !.player_state = IF change_state THEN Standing ELSE @,
                           !.moving_object.velocity = <<0, Y(@)>>]
            ELSE IF "KeyA" \in keyboard_input
            THEN Sideways(p, p.moving_object.state.left,
                          0 - (PLAYER_SPEED * maneuverability) \div 10, TRUE,
                          change_state)
            ELSE Sideways(p, p.moving_object.state.right,
                          (PLAYER_SPEED * maneuverability) \div 10, FALSE,
                          change_state)
    IN  IF ~moved.moving_object.state.ground /\ change_state
        THEN [moved EXCEPT !.player_state = Jumping]
        ELSE moved

\* fn initiate_jump
InitiateJump(player_state) == LoadingJump(Jump(Some(1), PLAYER_JUMP_FORCE))

\* a load_jump that keeps counting past JUMP_TIME
LoadJumpUnbounded(player_state) ==
    IF player_state.variant = "LoadingJump"
       /\ player_state.payload[1].jump_state # None
    THEN LET load_time == player_state.payload[1].jump_state[1]
             first == IF load_time = 1 THEN U8(load_time + 1) ELSE load_time
         IN  [player_state EXCEPT !.payload[1].jump_state = Some(U8(first + 1))]
    ELSE player_state

\* fn load_jump
LoadJump(player_state) ==
    IF player_state.variant = "LoadingJump"
       /\ player_state.payload[1].jump_state # None
    THEN LET load_time == player_state.payload[1].jump_state[1]
             first == IF load_time = 1 THEN U8(load_time + 1) ELSE load_time
         IN  IF load_time < JUMP_TIME
             THEN [player_state EXCEPT !.payload[1].jump_state = Some(U8(first + 1))]
             ELSE player_state
    ELSE player_state

\* fn execute_jump
ExecuteJump(p) ==
    LET jumps == /\ p.player_state.variant = "LoadingJump"
                 /\ p.player_state.payload[1].jump_state # None
    IN  [p EXCEPT !.moving_object.velocity =
                      IF jumps
                      THEN <<X(@), PLAYER_JUMP_FORCE
                                      * p.player_state.payload[1].jump_state[1]>>
                      ELSE @,
                  !.player_state = Jumping,
                  !.moving_object.state.ground = FALSE]

\* the match on the player's state of movement_controls
Moved(p, keyboard_input) ==
    IF p.player_state.variant \in {"Standing", "Walking"}
    THEN LET walked == MoveHorizontal(10, keyboard_input, p, TRUE)
         IN  IF "KeyS" \in keyboard_input
             THEN [walked EXCEPT !.player_state = InitiateJump(@)]
             ELSE walked
    ELSE IF p.player_state.variant = "LoadingJump"
    THEN LET walked == MoveHorizontal(5, keyboard_input, p, FALSE)
         IN  IF "KeyS" \in keyboard_input
             THEN [walked EXCEPT !.player_state = LoadJump(@)]
             ELSE ExecuteJump(walked)
    ELSE MoveHorizontal(7, keyboard_input, p, TRUE)

\* the change of the hitbox of movement_controls: KeyJ widens it, KeyK
\* heightens it, the other halfsize following from the volume
Stretched(p, keyboard_input, delta_seconds) ==
    LET state == p.moving_object.state
        by == p.stretching.stretch_speed * delta_seconds
        min_stretch == p.stretching.min_stretch
    IN  IF "KeyJ" \in keyboard_input
        THEN IF Y(p.aabb) > min_stretch
             THEN IF ~(state.left /\ state.right)
                  THEN [p EXCEPT !.aabb = <<X(@) + by,
                                            p.stretching.volume \div (X(@) + by)>>,
                                 !.stretching.currently_stretching = TRUE]
                  ELSE p
             ELSE [p EXCEPT !.aabb = <<X(@), min_stretch>>]
        ELSE IF "KeyK" \in keyboard_input
        THEN IF X(p.aabb) > min_stretch
             THEN IF ~(state.ground /\ state.ceiling)
                  THEN [p EXCEPT !.aabb = <<p.stretching.volume \div (Y(@) + by),
                                            Y(@) + by>>,
                                 !.stretching.currently_stretching = TRUE]
                  ELSE p
             ELSE [p EXCEPT !.aabb = <<min_stretch, Y(@)>>]
        ELSE [p EXCEPT !.stretching.currently_stretching = FALSE]

\* fn movement_controls
MovementControlsPass(p, keyboard_input, delta_seconds) ==
    LET stretched == Stretched(Moved(p, keyboard_input), keyboard_input, delta_seconds)
    IN  [stretched EXCEPT !.sprite.custom_size = <<2 * X(stretched.aabb),
                                                   2 * Y(stretched.aabb)>>]

\* the keys held during one frame
KeyboardInputs ==
    { {}, {"KeyS"}, {"KeyA"}, {"KeyD"}, {"KeyS", "KeyA"}, {"KeyA", "KeyD"},
      {"KeyS", "KeyJ"}, {"KeyK"} }

\* the contact flags a collisions pass may leave on the player
ContactsLeft ==
    { NoContact,
      [NoContact EXCEPT !.ground = TRUE],
      [NoContact EXCEPT !.ground = TRUE, !.left = TRUE],
      [NoContact EXCEPT !.left = TRUE, !.right = TRUE] }

\* the Update systems that read or write what movement_controls queries
PlayerSystems == {"movement_controls", "collisions"}

InitPlayer ==
    /\ mode = "player"
    /\ tree = New(World, Origin, AabbCapacity)
    /\ calls = <<>>
    /\ crashed = FALSE
    /\ found = <<>>
    /\ asked = <<>>
    /\ bodies = <<>>
    /\ last = "none"
    /\ steps = 0
    /\ pending = PlayerSystems
    /\ resources = <<>>
    /\ steered = <<>>
    /\ jitters = <<>>
    /\ player = SpawnPlayer

PlayerRan(system) ==
    /\ mode = "player"
    /\ steps < MaxPlayerSteps
    /\ system \in pending
    /\ steps' = steps + 1
    /\ last' = system
    /\ pending' = IF pending = {system} THEN PlayerSystems ELSE pending \ {system}
    /\ UNCHANGED <<mode, tree, calls, crashed, found, asked, bodies, resources, steered,
                   jitters>>

MovementControls ==
    /\ PlayerRan("movement_controls")
    /\ \E keyboard_input \in KeyboardInputs :
          player' = MovementControlsPass(player, keyboard_input, 1)

\* fn collisions, as far as the player is concerned: it leaves the flags of
\* the contacts of this frame
CollisionsOnPlayer ==
    /\ PlayerRan("collisions")
    /\ \E state \in ContactsLeft :
          player' = [player EXCEPT !.moving_object.state = state]

NextPlayer == MovementControls \/ CollisionsOnPlayer

SpecPlayer == InitPlayer /\ [][NextPlayer]_vars

----------------------------------------------------------------------------
(* Claims about the player *)

Loading(p) == p.player_state.variant = "LoadingJump"

\* the charge counter of a player that is loading a jump with Some(n)
Charge(p) == p.player_state.payload[1].jump_state[1]

\* the counter after one more held tick, as the claim gives it
Charged(n) == IF n >= JUMP_TIME THEN n ELSE IF n = 1 THEN 3 ELSE n + 1

\* C26: whenever the player is in LoadingJump the charge counter is Some(n)
\* with 1 <= n <= JUMP_TIME; LoadingJump is entered with n = 1, a tick of
\* movement_controls that stays in it takes n to 3 from 1, to n + 1 from
\* 2..14 and leaves 15 as it is, and no other system changes n; LoadingJump
\* is left only by a tick of movement_controls, which leaves the player in
\* Jumping with vertical velocity PLAYER_JUMP_FORCE * n and the on-ground
\* flag cleared.
C26_JumpCharge ==
    [][ /\ Loading(player') =>
              /\ player'.player_state.payload[1].jump_state # None
              /\ 1 <= Charge(player') /\ Charge(player') <= JUMP_TIME
        /\ (~Loading(player) /\ Loading(player')) => Charge(player') = 1
        /\ (Loading(player) /\ Loading(player')) =>
              Charge(player') = IF last' = "movement_controls"
                                THEN Charged(Charge(player))
                                ELSE Charge(player)
        /\ (Loading(player) /\ ~Loading(player')) =>
              /\ last' = "movement_controls"
              /\ player'.player_state = Jumping
              /\ Y(player'.moving_object.velocity)
                    = PLAYER_JUMP_FORCE * Charge(player)
              /\ ~player'.moving_object.state.ground
      ]_vars

\* C26, the case: the jump key was held until the counter stood at
\* JUMP_TIME and then released: the player is in Jumping, off the ground,
\* rising at PLAYER_JUMP_FORCE * JUMP_TIME.
C26_Witness ==
    /\ mode = "player" /\ last = "movement_controls"
    /\ player.player_state = Jumping
    /\ Y(player.moving_object.velocity) = PLAYER_JUMP_FORCE * JUMP_TIME
    /\ ~player.moving_object.state.ground

====
